---- MODULE Spec2Model ----
(***************************************************************************)
(* SPRUCE soil-temperature scripts.                                        *)
(*   "MAT"    : 20191017_SPRUCE_Soil_Temp_MAT_mlf.py (calendar year)       *)
(*   "window" : 20191017_SPRUCE_Soil_Temp_mlf.py     (lookback window)     *)
(* CSV cells are sequences of one-character strings.  Python floats are    *)
(* modelled as exact rationals [n, d] in lowest terms with d > 0;         *)
(* get_depth is modelled a second time with its arithmetic in binary64.    *)
(* A Python list is a TLA+ sequence: Python index k is TLA+ index k + 1.   *)
(***************************************************************************)
EXTENDS Integers, Sequences, FiniteSets, TLC

VARIABLES variant, sampling_dates, infile, pc, data, btemps, averages,
          summary, nodata, error, fn_line, call, out

vars == <<variant, sampling_dates, infile, pc, data, btemps, averages,
          summary, nodata, error, fn_line, call, out>>

Variants == {"MAT", "window"}

-----------------------------------------------------------------------------
(* Configuration constants of the scripts *)

plots == <<4, 6, 7, 8, 10, 11, 13, 16, 17, 19, 20>>

depths == <<0, 5, 10, 20, 30, 40, 50, 100, 200>>

\* intervals that share no depth: each begins one below the end of the
\* previous one
intervals_disjoint ==
    << <<1, 10>>, <<11, 20>>, <<21, 30>>, <<31, 40>>, <<41, 50>>,
       <<51, 75>>, <<76, 100>>, <<101, 125>>, <<126, 150>>, <<151, 175>>,
       <<176, 200>> >>

intervals == << <<1, 10>>, <<10, 20>>, <<20, 30>>, <<30, 40>>, <<40, 50>>,
                <<50, 75>>, <<75, 100>>, <<100, 125>>, <<125, 150>>,
                <<150, 175>>, <<175, 200>> >>

\* datetime.timedelta(days = 2)
before == 2

-----------------------------------------------------------------------------
(* Python values and call outcomes *)

None == [kind |-> "None"]
NaN == [kind |-> "nan"]
Str(tok) == [kind |-> "str", s |-> tok]

Ret(v) == [tag |-> "return", val |-> v]
Raise(e) == [tag |-> "raise", exc |-> e]

Abs(x) == IF x < 0 THEN -x ELSE x

RECURSIVE Gcd(_, _)
Gcd(a, b) == IF b = 0 THEN a ELSE Gcd(b, a % b)

\* float value n/d in lowest terms (d # 0)
Float(n, d) ==
    LET g == Gcd(Abs(n), Abs(d))
        s == IF d < 0 THEN -1 ELSE 1
    IN [kind |-> "float", n |-> (s * n) \div g, d |-> (s * d) \div g]

Lcm(a, b) == (a \div Gcd(a, b)) * b
FAdd(x, y) ==
    LET l == Lcm(x.d, y.d)
    IN Float(x.n * (l \div x.d) + y.n * (l \div y.d), l)
FNeg(x) == [kind |-> "float", n |-> -x.n, d |-> x.d]
FSub(x, y) == FAdd(x, FNeg(y))
FMul(x, y) == Float(x.n * y.n, x.d * y.d)
FDiv(x, y) == Float(x.n * y.d, x.d * y.n)
FLess(x, y) == x.n * y.d < y.n * x.d
FLeq(x, y) == x.n * y.d <= y.n * x.d
FInt(k) == Float(k, 1)

Digits == <<"0", "1", "2", "3", "4", "5", "6", "7", "8", "9">>
IsDigit(c) == \E k \in 1..10 : Digits[k] = c
DigitVal(c) == (CHOOSE k \in 1..10 : Digits[k] = c) - 1

RECURSIVE DigitsVal(_)
DigitsVal(tok) ==
    IF tok = <<>> THEN 0
    ELSE 10 * DigitsVal(SubSeq(tok, 1, Len(tok) - 1)) + DigitVal(tok[Len(tok)])

RECURSIVE Pow10(_)
Pow10(k) == IF k = 0 THEN 1 ELSE 10 * Pow10(k - 1)

AllDigits(tok) == tok # <<>> /\ \A k \in 1..Len(tok) : IsDigit(tok[k])

\* int(tok) for cells of decimal digits; any other cell raises ValueError
PyInt(tok) ==
    IF AllDigits(tok) THEN Ret(DigitsVal(tok)) ELSE Raise("ValueError")

\* the value of the cell "ip.fp"
Decimal(ip, fp) ==
    Float(DigitsVal(ip) * Pow10(Len(fp)) + DigitsVal(fp), Pow10(Len(fp)))

\* float(tok) where p is the position of the first "." in tok, or 0
float_at(tok, p) ==
    IF p = 0
    THEN IF AllDigits(tok) THEN Ret(FInt(DigitsVal(tok)))
                           ELSE Raise("ValueError")
    ELSE IF AllDigits(SubSeq(tok, 1, p - 1) \o SubSeq(tok, p + 1, Len(tok)))
            /\ p > 1
         THEN Ret(Decimal(SubSeq(tok, 1, p - 1), SubSeq(tok, p + 1, Len(tok))))
         ELSE Raise("ValueError")

FirstDot(tok) ==
    IF \E q \in 1..Len(tok) : tok[q] = "."
    THEN CHOOSE q \in 1..Len(tok) :
            tok[q] = "." /\ \A r \in 1..(q - 1) : tok[r] # "."
    ELSE 0

\* float(tok) for cells "ddd", "ddd." and "ddd.ddd"; the empty cell and cells
\* with any other character raise ValueError
PyFloat(tok) == float_at(tok, FirstDot(tok))

\* seq[k] with Python's index rules (k counted from 0, negative from the end)
PyItem(seq, k) ==
    LET j == IF k < 0 THEN k + Len(seq) ELSE k
    IN IF j < 0 \/ j >= Len(seq) THEN Raise("IndexError") ELSE Ret(seq[j + 1])

\* float(seq[k])
FloatItem(seq, k) ==
    LET c == PyItem(seq, k)
    IN IF c.tag = "raise" THEN c ELSE PyFloat(c.val)

\* bisect.bisect_left(a, x): the loop of the library routine
RECURSIVE bisect_loop(_, _, _, _)
bisect_loop(a, x, lo, hi) ==
    IF lo < hi
    THEN LET mid == (lo + hi) \div 2
         IN IF a[mid + 1] < x THEN bisect_loop(a, x, mid + 1, hi)
                              ELSE bisect_loop(a, x, lo, mid)
    ELSE lo

\* bisect.bisect_right in place of bisect_left: the first index whose
\* element is greater than x
bisect_right(a, x) == Cardinality({k \in 1..Len(a) : a[k] <= x})

bisect_left(a, x) == bisect_loop(a, x, 0, Len(a))

-----------------------------------------------------------------------------
(* filter(line): TIMESTAMP, Plot and the nine B-series temperature cells *)

filter(line) == <<line.TIMESTAMP, line.Plot>> \o line.TS

-----------------------------------------------------------------------------
(* get_depth(fields, depth) *)

\* an off-by-one guard: i > len(depths)
depth_guard_off_by_one(v, depth, i) ==
    IF v = "window" THEN depth < 0 \/ i > Len(depths)
                    ELSE i > Len(depths)

\* the depth guard of get_depth, which differs between the two scripts
depth_guard(v, depth, i) ==
    IF v = "window" THEN depth < 0 \/ i >= Len(depths)
                    ELSE i >= Len(depths)

\* an interpolation that measures depth from the surface instead of from
\* depths[i - 1]
interpolate_from_surface(lo, hi, depth, di1, di) ==
    IF lo.tag = "raise" THEN lo
    ELSE IF hi.tag = "raise" THEN hi
    ELSE IF di - di1 = 0 THEN Raise("ZeroDivisionError")
    ELSE Ret(FAdd(lo.val,
                  FMul(FInt(depth),
                       FDiv(FSub(hi.val, lo.val), FInt(di - di1)))))

\* the arithmetic of get_depth once lo and hi are converted; di1 and di
\* are depths[i - 1] and depths[i]
interpolate(lo, hi, depth, di1, di) ==
    IF lo.tag = "raise" THEN lo
    ELSE IF hi.tag = "raise" THEN hi
    ELSE IF di - di1 = 0 THEN Raise("ZeroDivisionError")
    ELSE Ret(FAdd(lo.val,
                  FMul(FInt(depth - di1),
                       FDiv(FSub(hi.val, lo.val), FInt(di - di1)))))

\* get_depth after i = bisect.bisect_left(depths, depth)
get_depth_at(v, fields, depth, i) ==
    IF depth_guard(v, depth, i) THEN Raise("ValueError")
    ELSE interpolate(FloatItem(fields, 2 + (i - 1)), FloatItem(fields, 2 + i),
                     depth, PyItem(depths, i - 1).val, PyItem(depths, i).val)

get_depth(v, fields, depth) ==
    IF depth = 0 THEN Ret(Str(fields[3]))
    ELSE get_depth_at(v, fields, depth, bisect_left(depths, depth))

-----------------------------------------------------------------------------
(* The same arithmetic in IEEE 754 binary64, the format of a Python float. *)
(* A value is (-1)^neg * man * 2^exp with 2^52 <= man < 2^53; man is a     *)
(* natural number held as a sequence of limbs in base 2^16, the least      *)
(* significant first.  Zero has the empty mantissa.                        *)

LimbBits == 16
Precision == 53

RECURSIVE Pow2(_)
Pow2(k) == IF k = 0 THEN 1 ELSE 2 * Pow2(k - 1)

Limb == Pow2(LimbBits)

RECURSIVE BigNat(_)
BigNat(n) == IF n = 0 THEN <<>> ELSE <<n % Limb>> \o BigNat(n \div Limb)

RECURSIVE BigTrim(_)
BigTrim(a) ==
    IF a # <<>> /\ a[Len(a)] = 0 THEN BigTrim(SubSeq(a, 1, Len(a) - 1))
    ELSE a

LimbAt(a, k) == IF k <= Len(a) THEN a[k] ELSE 0

\* the limbs of s + c from position k on, s the sum of two limbs
CarryLimb(s) == <<s % Limb>>
CarryOut(s) == s \div Limb

RECURSIVE BigAddFrom(_, _, _, _)
BigAddFrom(a, b, k, c) ==
    IF k > Len(a) /\ k > Len(b) THEN IF c = 0 THEN <<>> ELSE <<c>>
    ELSE CarryLimb(LimbAt(a, k) + LimbAt(b, k) + c)
            \o BigAddFrom(a, b, k + 1,
                          CarryOut(LimbAt(a, k) + LimbAt(b, k) + c))

BigAdd(a, b) == BigAddFrom(a, b, 1, 0)

\* a - b for a >= b
RECURSIVE BigSubFrom(_, _, _, _)
BigSubFrom(a, b, k, c) ==
    IF k > Len(a) THEN <<>>
    ELSE CarryLimb((Limb + a[k]) - (LimbAt(b, k) + c))
            \o BigSubFrom(a, b, k + 1,
                          IF a[k] < LimbAt(b, k) + c THEN 1 ELSE 0)

BigSub(a, b) == BigTrim(BigSubFrom(a, b, 1, 0))

RECURSIVE BigCmpFrom(_, _, _)
BigCmpFrom(a, b, k) ==
    IF k = 0 THEN 0
    ELSE IF a[k] < b[k] THEN -1
    ELSE IF a[k] > b[k] THEN 1
    ELSE BigCmpFrom(a, b, k - 1)

\* -1, 0 or 1 as a < b, a = b or a > b
BigCmp(a, b) ==
    IF Len(a) < Len(b) THEN -1
    ELSE IF Len(a) > Len(b) THEN 1
    ELSE BigCmpFrom(a, b, Len(a))

\* a * m for 0 < m <= 2^15
RECURSIVE BigMulFrom(_, _, _, _)
BigMulFrom(a, m, k, c) ==
    IF k > Len(a) THEN IF c = 0 THEN <<>> ELSE <<c>>
    ELSE CarryLimb(a[k] * m + c)
            \o BigMulFrom(a, m, k + 1, CarryOut(a[k] * m + c))

BigMul(a, m) == IF m = 0 THEN <<>> ELSE BigMulFrom(a, m, 1, 0)

\* long division of the limbs k, k-1, .., 1 of a by m, 0 < m <= 2^15, with
\* r carried in from the limbs above
DivCons(rest, digit) == [q |-> Append(rest.q, digit), r |-> rest.r]

RECURSIVE BigDivFrom(_, _, _, _)
BigDivFrom(a, m, k, r) ==
    IF k = 0 THEN [q |-> <<>>, r |-> r]
    ELSE DivCons(BigDivFrom(a, m, k - 1, (r * Limb + a[k]) % m),
                 (r * Limb + a[k]) \div m)

DivTrim(qr) == [q |-> BigTrim(qr.q), r |-> qr.r]
BigDiv(a, m) == DivTrim(BigDivFrom(a, m, Len(a), 0))

\* a * 2^n and floor(a / 2^n)
BigShl(a, n) ==
    IF a = <<>> THEN <<>>
    ELSE [k \in 1..(n \div LimbBits) |-> 0] \o BigMul(a, Pow2(n % LimbBits))

BigShr(a, n) ==
    IF n \div LimbBits >= Len(a) THEN <<>>
    ELSE BigDiv(SubSeq(a, (n \div LimbBits) + 1, Len(a)),
                Pow2(n % LimbBits)).q

RECURSIVE BitLen(_)
BitLen(n) == IF n = 0 THEN 0 ELSE 1 + BitLen(n \div 2)

BigBitLen(a) ==
    IF a = <<>> THEN 0 ELSE LimbBits * (Len(a) - 1) + BitLen(a[Len(a)])

Binary64(neg, man, exp) ==
    [kind |-> "binary64", neg |-> neg, man |-> man, exp |-> exp]

Zero64 == Binary64(FALSE, <<>>, 0)

\* round to nearest, ties to even: q is the kept part, c compares the
\* dropped part with one half, sticky tells of a remainder below the
\* dropped part
RoundsUp(q, c, sticky) == c > 0 \/ (c = 0 /\ (sticky \/ q[1] % 2 = 1))

Renormalise(neg, q, e) ==
    IF BigBitLen(q) > Precision THEN Binary64(neg, BigShr(q, 1), e + 1)
    ELSE Binary64(neg, q, e)

RoundShifted(neg, N, e, sticky, sh, q) ==
    Renormalise(neg,
                IF RoundsUp(q, BigCmp(BigSub(N, BigShl(q, sh)),
                                      BigShl(<<1>>, sh - 1)), sticky)
                THEN BigAdd(q, <<1>>) ELSE q,
                e + sh)

RoundAt(neg, N, e, sticky, L) ==
    IF L <= Precision
    THEN Binary64(neg, BigShl(N, Precision - L), e - (Precision - L))
    ELSE RoundShifted(neg, N, e, sticky, L - Precision,
                      BigShr(N, L - Precision))

\* the binary64 value nearest to (-1)^neg * (N + s) * 2^e, where 0 < s < 1
\* if sticky and s = 0 otherwise; N has more than Precision bits if sticky
Round64(neg, N, e, sticky) ==
    IF N = <<>> THEN Zero64 ELSE RoundAt(neg, N, e, sticky, BigBitLen(N))

\* x + y: the exact sum of the aligned mantissas, rounded once
AddAligned(x, y, X, Y, e) ==
    IF x.neg = y.neg THEN Round64(x.neg, BigAdd(X, Y), e, FALSE)
    ELSE IF BigCmp(X, Y) = 0 THEN Zero64
    ELSE IF BigCmp(X, Y) > 0 THEN Round64(x.neg, BigSub(X, Y), e, FALSE)
    ELSE Round64(y.neg, BigSub(Y, X), e, FALSE)

AddAt(x, y, e) ==
    AddAligned(x, y, BigShl(x.man, x.exp - e), BigShl(y.man, y.exp - e), e)

Add64(x, y) ==
    IF x.man = <<>> THEN y
    ELSE IF y.man = <<>> THEN x
    ELSE AddAt(x, y, IF x.exp < y.exp THEN x.exp ELSE y.exp)

Neg64(x) == IF x.man = <<>> THEN x ELSE Binary64(~x.neg, x.man, x.exp)
Sub64(x, y) == Add64(x, Neg64(y))

\* k * x and x / k for an int k, |k| <= 2^15: the int converts exactly
MulInt64(k, x) ==
    Round64(x.neg # (k < 0), BigMul(x.man, Abs(k)), x.exp, FALSE)

DivRounded(neg, qr, e) == Round64(neg, qr.q, e, qr.r # 0)

DivInt64(x, k) ==
    DivRounded(x.neg # (k < 0), BigDiv(BigShl(x.man, 2 * LimbBits), Abs(k)),
               x.exp - 2 * LimbBits)

Int64(n) == Round64(n < 0, BigNat(Abs(n)), 0, FALSE)

\* float(tok) in binary64: the cell's decimal value n/d, correctly rounded
ToBinary64(r) ==
    IF r.tag = "raise" THEN r ELSE Ret(DivInt64(Int64(r.val.n), r.val.d))

PyFloat64(tok) == ToBinary64(PyFloat(tok))

Float64Item(seq, k) ==
    LET c == PyItem(seq, k)
    IN IF c.tag = "raise" THEN c ELSE PyFloat64(c.val)

interpolate_binary64(lo, hi, depth, di1, di) ==
    IF lo.tag = "raise" THEN lo
    ELSE IF hi.tag = "raise" THEN hi
    ELSE IF di - di1 = 0 THEN Raise("ZeroDivisionError")
    ELSE Ret(Add64(lo.val,
                   MulInt64(depth - di1,
                            DivInt64(Sub64(hi.val, lo.val), di - di1))))

get_depth_at_binary64(v, fields, depth, i) ==
    IF depth_guard(v, depth, i) THEN Raise("ValueError")
    ELSE interpolate_binary64(Float64Item(fields, 2 + (i - 1)),
                              Float64Item(fields, 2 + i), depth,
                              PyItem(depths, i - 1).val,
                              PyItem(depths, i).val)

\* get_depth(fields, depth) with the float arithmetic in binary64
get_depth_binary64(v, fields, depth) ==
    IF depth = 0 THEN Ret(Str(fields[3]))
    ELSE get_depth_at_binary64(v, fields, depth, bisect_left(depths, depth))

-----------------------------------------------------------------------------
(* average(line, interval) *)

\* sum of the samples g[lo..hi]; the arithmetic is exact, so the order in
\* which the loop adds them does not change the result
RECURSIVE SumRange(_, _, _)
SumRange(g, lo, hi) ==
    IF lo > hi THEN FInt(0)
    ELSE IF lo = hi THEN g[lo].val
    ELSE LET mid == (lo + hi) \div 2
         IN FAdd(SumRange(g, lo, mid), SumRange(g, mid + 1, hi))

\* a loop that skips the samples that fail and adds up the others
sum_skipping(g, lo, hi, bad) ==
    Ret(SumRange([i \in lo..hi |-> IF i \in bad THEN Ret(FInt(0)) ELSE g[i]],
                 lo, hi))

\* the for loop of average over the samples g[i] = get_depth(line, i),
\* i = lo .. hi.  The loop stops at the first i whose get_depth raises, or
\* whose value is a str (int + str and float + str raise TypeError).
sum_samples(g, lo, hi, bad) ==
    IF bad # {}
    THEN LET f == CHOOSE i \in bad : \A j \in bad : i <= j
         IN IF g[f].tag = "raise" THEN g[f] ELSE Raise("TypeError")
    ELSE Ret(SumRange(g, lo, hi))

Failing(g) == {i \in DOMAIN g : g[i].tag = "raise" \/ g[i].val.kind = "str"}

average_loop(g, lo, hi) == sum_samples(g, lo, hi, Failing(g))

\* what average does with the outcome s of its loop over n + ... samples
average_result(v, s, n) ==
    IF s.tag = "raise"
    THEN IF v = "MAT" THEN Ret(None) ELSE s
    ELSE IF n = 0 THEN Raise("ZeroDivisionError")
    ELSE Ret(FDiv(s.val, FInt(n)))

average(v, line, interval) ==
    average_result(v,
                   average_loop([i \in interval[1]..interval[2] |->
                                    get_depth(v, line, i)],
                                interval[1], interval[2]),
                   (interval[2] - interval[1]) + 1)

-----------------------------------------------------------------------------
(* datetime objects: [year, month, day, hour, minute] *)

DateTime(y, mo, d, h, mi) ==
    [year |-> y, month |-> mo, day |-> d, hour |-> h, minute |-> mi]

IsLeap(y) == (y % 4 = 0) /\ ((y % 100 # 0) \/ (y % 400 = 0))

DaysInMonth(y, mo) ==
    IF mo = 2 THEN (IF IsLeap(y) THEN 29 ELSE 28)
    ELSE IF mo \in {4, 6, 9, 11} THEN 30 ELSE 31

RECURSIVE DaysBeforeMonth(_, _)
DaysBeforeMonth(y, mo) ==
    IF mo <= 1 THEN 0
    ELSE DaysBeforeMonth(y, mo - 1) + DaysInMonth(y, mo - 1)

DaysBeforeYear(y) ==
    (y - 1) * 365 + ((y - 1) \div 4) - ((y - 1) \div 100) + ((y - 1) \div 400)

\* minutes since the start of the proleptic Gregorian calendar
Minutes(dt) ==
    (DaysBeforeYear(dt.year) + DaysBeforeMonth(dt.year, dt.month) + dt.day)
        * 1440 + dt.hour * 60 + dt.minute

\* date - before
MinusBefore(date) == Minutes(date) - before * 1440

-----------------------------------------------------------------------------
(* Temporal predicates *)

\* MAT script: is_year(fields, date), fields being the year as an integer
is_year(yr, date) == yr = date.year

\* MAT script: in_range(fields, date), fields a filtered list
in_range_MAT(fields, date) ==
    LET d == PyInt(SubSeq(fields[1], 1, 4)).val
    IN d >= date.year

\* window script: in_range(fields, date), fields a csv.DictReader row
in_range(fields, date) ==
    LET ts == fields.TIMESTAMP
        d  == DateTime(PyInt(SubSeq(ts, 1, 4)).val,
                       PyInt(SubSeq(ts, 6, 7)).val,
                       PyInt(SubSeq(ts, 9, 10)).val, 0, 0)
    IN Minutes(d) >= MinusBefore(date) /\ Minutes(d) <= Minutes(date)

InPlots(p) == \E k \in 1..Len(plots) : plots[k] = p

-----------------------------------------------------------------------------
(* The filter loops that build the list data *)

\* MAT script, inner loop "for date in sampling_dates" from position di on
RECURSIVE filter_dates_MAT(_, _, _, _)
filter_dates_MAT(line, dates, di, acc) ==
    IF di > Len(dates) THEN acc
    ELSE LET yr == PyInt(SubSeq(line.c0, 1, 4)).val IN
         IF is_year(yr, dates[di])
         THEN LET fields == filter(line)
                  p == PyInt(fields[2]).val
              IN IF InPlots(p)
                 THEN filter_dates_MAT(line, dates, di + 1, Append(acc, fields))
                 ELSE filter_dates_MAT(line, dates, di + 1, acc)
         ELSE filter_dates_MAT(line, dates, di + 1, acc)

\* window script, inner loop with its continue and break
RECURSIVE filter_dates_window(_, _, _, _)
filter_dates_window(line, dates, di, acc) ==
    IF di > Len(dates) THEN acc
    ELSE IF in_range(line, dates[di]) = FALSE
         THEN filter_dates_window(line, dates, di + 1, acc)
         ELSE LET p == PyInt(line.Plot).val
              IN IF ~InPlots(p) THEN acc
                 ELSE filter_dates_window(line, dates, di + 1,
                                          Append(acc, filter(line)))

filter_dates(v, line, dates, acc) ==
    IF v = "MAT" THEN filter_dates_MAT(line, dates, 1, acc)
                 ELSE filter_dates_window(line, dates, 1, acc)

\* outer loop "for line in InFile"
RECURSIVE filter_lines(_, _, _, _, _)
filter_lines(v, lines, dates, li, acc) ==
    IF li > Len(lines) THEN acc
    ELSE filter_lines(v, lines, dates, li + 1,
                      filter_dates(v, lines[li], dates, acc))

-----------------------------------------------------------------------------
(* ",".join(fields) *)

RECURSIVE join(_)
join(fields) ==
    IF fields = <<>> THEN <<>>
    ELSE IF Len(fields) = 1 THEN fields[1]
    ELSE fields[1] \o <<",">> \o join(Tail(fields))

RECURSIVE join_rows(_)
join_rows(rows) ==
    IF rows = <<>> THEN <<>> ELSE <<join(rows[1])>> \o join_rows(Tail(rows))

-----------------------------------------------------------------------------
(* numpy statistics over the list temps *)

\* numpy.array(temps, dtype = numpy.float64): None becomes NaN
to_float64(temps) ==
    [k \in 1..Len(temps) |-> IF temps[k].kind = "None" THEN NaN ELSE temps[k]]

IsNumber(x) == x.kind = "float"

\* NaN counted as zero instead of being left out
NaNAsZero(arr) ==
    [k \in 1..Len(arr) |-> IF IsNumber(arr[k]) THEN arr[k] ELSE FInt(0)]

NotNaN(arr) == SelectSeq(arr, IsNumber)

RECURSIVE FSum(_)
FSum(arr) == IF arr = <<>> THEN FInt(0) ELSE FAdd(arr[1], FSum(Tail(arr)))

RECURSIVE FMin(_)
FMin(arr) ==
    IF Len(arr) = 1 THEN arr[1]
    ELSE LET r == FMin(Tail(arr)) IN IF FLess(r, arr[1]) THEN r ELSE arr[1]

RECURSIVE FMax(_)
FMax(arr) ==
    IF Len(arr) = 1 THEN arr[1]
    ELSE LET r == FMax(Tail(arr)) IN IF FLess(arr[1], r) THEN r ELSE arr[1]

RECURSIVE ISqrtLoop(_, _, _)
ISqrtLoop(n, lo, hi) ==
    IF lo >= hi THEN lo
    ELSE LET mid == (lo + hi + 1) \div 2
         IN IF mid * mid <= n THEN ISqrtLoop(n, mid, hi)
                              ELSE ISqrtLoop(n, lo, mid - 1)

ISqrt(n) == ISqrtLoop(n, 0, IF n < 46340 THEN n ELSE 46340)

\* the non-negative square root; kept symbolic when it is irrational
Root(x, rn, rd) ==
    IF rn * rn = x.n /\ rd * rd = x.d THEN Float(rn, rd)
    ELSE [kind |-> "sqrt", of |-> x]

FSqrt(x) == Root(x, ISqrt(x.n), ISqrt(x.d))

mean(arr) == FDiv(FSum(arr), FInt(Len(arr)))

FSquare(x) == FMul(x, x)

SqDev(arr, mu) == [k \in 1..Len(arr) |-> FSquare(FSub(arr[k], mu))]

\* numpy.std: square root of the mean squared deviation (ddof = 0)
std(arr) == FSqrt(mean(SqDev(arr, mean(arr))))

\* the nan-functions: the statistic of the entries that are not NaN, and
\* NaN (with a RuntimeWarning) when every entry is NaN
OrNaN(x) == IF x.tag = "raise" THEN NaN ELSE x.val
NumMin(a) == IF a = <<>> THEN Raise("empty") ELSE Ret(FMin(a))
NumMax(a) == IF a = <<>> THEN Raise("empty") ELSE Ret(FMax(a))
NumMean(a) == IF a = <<>> THEN Raise("empty") ELSE Ret(mean(a))
NumStd(a) == IF a = <<>> THEN Raise("empty") ELSE Ret(std(a))

nanmin(arr) == OrNaN(NumMin(NotNaN(arr)))
nanmax(arr) == OrNaN(NumMax(NotNaN(arr)))
nanmean(arr) == OrNaN(NumMean(NotNaN(arr)))
nanstd(arr) == OrNaN(NumStd(NotNaN(arr)))

-----------------------------------------------------------------------------
(* The summary loops: for plot, for date, for interval *)

NGroups(dates) == Len(plots) * Len(dates) * Len(intervals)

\* the g-th iteration of the three nested loops, g = 1 .. NGroups
GroupPlot(dates, g) ==
    plots[((g - 1) \div (Len(dates) * Len(intervals))) + 1]
GroupDate(dates, g) ==
    dates[(((g - 1) \div Len(intervals)) % Len(dates)) + 1]
GroupInterval(g) == intervals[((g - 1) % Len(intervals)) + 1]

\* MAT script: positions in data selected by
\*   if in_range(sample, date) and int(sample[1]) == plot
selected(d, date, plot) ==
    SelectSeq([k \in 1..Len(d) |-> k],
              LAMBDA k : in_range_MAT(d[k], date) /\ PyInt(d[k][2]).val = plot)

\* MAT script: the body of the innermost loop once temps is the float64
\* array of the interval averages of the selected samples
summary_entry(sel, temps, date, plot, interval) ==
    IF Len(temps) # 0
    THEN [kind |-> "row", date |-> date, plot |-> plot,
          interval |-> interval, samples |-> sel,
          min |-> nanmin(temps), max |-> nanmax(temps),
          avg |-> nanmean(temps), stdev |-> nanstd(temps)]
    ELSE [kind |-> "nodata", date |-> date, plot |-> plot,
          interval |-> interval, samples |-> sel]

\* temps = [ average(sample, interval) for sample in data if ... ]
group_temps(d, sel, interval) ==
    [k \in 1..Len(sel) |-> average("MAT", d[sel[k]], interval).val]

\* MAT script: one iteration of the innermost loop
summary_group(d, sel, date, plot, interval) ==
    summary_entry(sel, to_float64(group_temps(d, sel, interval)),
                  date, plot, interval)

\* window script: one iteration when data is empty (with a sample in data
\* the call in_range(sample, date) indexes a list by 'TIMESTAMP')
empty_group(date, plot, interval) ==
    [kind |-> "nodata", date |-> date, plot |-> plot,
     interval |-> interval, samples |-> <<>>]

IsRow(e) == e.kind = "row"
IsNoData(e) == e.kind = "nodata"

-----------------------------------------------------------------------------
(* The stages of a run of a script *)

FilterLoop ==
    /\ pc = "filter"
    /\ data' = filter_lines(variant, infile, sampling_dates, 1, <<>>)
    /\ pc' = "btemps"
    /\ UNCHANGED <<variant, sampling_dates, infile, btemps, averages,
                   summary, nodata, error, fn_line, call, out>>

\* The window script writes filter(header), and header is never assigned.
WriteBTemps ==
    /\ pc = "btemps"
    /\ IF variant = "MAT"
       THEN /\ btemps' = join_rows(data)
            /\ pc' = "averages"
            /\ error' = error
       ELSE /\ btemps' = <<>>
            /\ pc' = "aborted"
            /\ error' = "NameError"
    /\ UNCHANGED <<variant, sampling_dates, infile, data, averages,
                   summary, nodata, fn_line, call, out>>

\* the r-th print of "for line in data: for i in intervals"
averages_row(v, d, r) ==
    [TimeStamp |-> d[((r - 1) \div Len(intervals)) + 1][1],
     Plot |-> d[((r - 1) \div Len(intervals)) + 1][2],
     upper |-> intervals[((r - 1) % Len(intervals)) + 1][1],
     lower |-> intervals[((r - 1) % Len(intervals)) + 1][2],
     average |-> average(v, d[((r - 1) \div Len(intervals)) + 1],
                         intervals[((r - 1) % Len(intervals)) + 1])]

Raising(rows) == {r \in DOMAIN rows : rows[r].average.tag = "raise"}

\* the prints up to the first average that raises
written(rows, bad) ==
    IF bad = {} THEN rows
    ELSE SubSeq(rows, 1, (CHOOSE r \in bad : \A q \in bad : r <= q) - 1)

raised(rows, bad) ==
    IF bad = {} THEN ""
    ELSE rows[CHOOSE r \in bad : \A q \in bad : r <= q].average.exc

averages_stage(rows, bad) ==
    /\ averages' = written(rows, bad)
    /\ pc' = IF bad = {} THEN "summary" ELSE "aborted"
    /\ error' = raised(rows, bad)

averages_rows(v, d) ==
    [r \in 1..(Len(d) * Len(intervals)) |-> averages_row(v, d, r)]

WriteAverages ==
    /\ pc = "averages"
    /\ averages_stage(averages_rows(variant, data),
                      Raising(averages_rows(variant, data)))
    /\ UNCHANGED <<variant, sampling_dates, infile, data, btemps,
                   summary, nodata, fn_line, call, out>>

summary_groups(d, dates) ==
    [g \in 1..NGroups(dates) |->
        summary_group(d, selected(d, GroupDate(dates, g), GroupPlot(dates, g)),
                      GroupDate(dates, g), GroupPlot(dates, g),
                      GroupInterval(g))]

empty_groups(dates) ==
    [g \in 1..NGroups(dates) |->
        empty_group(GroupDate(dates, g), GroupPlot(dates, g),
                    GroupInterval(g))]

summary_stage(groups) ==
    /\ summary' = SelectSeq(groups, IsRow)
    /\ nodata' = SelectSeq(groups, IsNoData)
    /\ pc' = "done"
    /\ error' = error

WriteSummary ==
    /\ pc = "summary"
    /\ IF variant = "MAT"
       THEN summary_stage(summary_groups(data, sampling_dates))
       ELSE IF data = <<>>
            THEN summary_stage(empty_groups(sampling_dates))
            ELSE /\ summary' = <<>>
                 /\ nodata' = <<>>
                 /\ pc' = "aborted"
                 /\ error' = "TypeError"
    /\ UNCHANGED <<variant, sampling_dates, infile, data, btemps,
                   averages, fn_line, call, out>>

-----------------------------------------------------------------------------
(* Input files and configurations explored *)

MaxLines == 2

Cell2(k) == <<Digits[(k \div 10) + 1], Digits[(k % 10) + 1]>>
Cell4(y) == Cell2(y \div 100) \o Cell2(y % 100)

RECURSIVE NumCell(_)
NumCell(k) ==
    IF k < 10 THEN <<Digits[k + 1]>>
    ELSE NumCell(k \div 10) \o <<Digits[(k % 10) + 1]>>

\* '%Y/%m/%d %H:%M'
Timestamp(y, mo, d, h, mi) ==
    Cell4(y) \o <<"/">> \o Cell2(mo) \o <<"/">> \o Cell2(d) \o <<" ">>
        \o Cell2(h) \o <<":">> \o Cell2(mi)

\* a data line: its leading column starts with the year of the record
Line(ts, plot, temps) ==
    [c0 |-> SubSeq(ts, 1, 4), TIMESTAMP |-> ts, Plot |-> NumCell(plot),
     TS |-> temps]

Flat(t) == [k \in 1..Len(depths) |-> NumCell(t)]
Blank(temps, M, cell) ==
    [k \in 1..Len(temps) |-> IF k \in M THEN cell ELSE temps[k]]

Example == <<NumCell(10), NumCell(12), NumCell(16), NumCell(16), NumCell(14),
             NumCell(12), NumCell(11), NumCell(9), NumCell(9)>>

Oct15 == DateTime(2016, 10, 15, 16, 0)
Oct14 == DateTime(2016, 10, 14, 16, 0)
Oct15of2015 == DateTime(2015, 10, 15, 16, 0)

DateLists == {<<Oct15>>, <<Oct15, Oct14>>, <<Oct15of2015, Oct15>>,
              <<Oct15, Oct15of2015>>, <<Oct15of2015>>}

PipeLines ==
    {Line(Timestamp(2016, 10, 14, 12, 0), 4, Flat(9)),
     Line(Timestamp(2016, 10, 14, 12, 30), 4, Flat(11)),
     Line(Timestamp(2016, 10, 14, 13, 0), 4, Blank(Flat(11), {2}, <<>>)),
     Line(Timestamp(2015, 10, 14, 12, 0), 6, Example),
     Line(Timestamp(2016, 10, 14, 12, 0), 5, Flat(9))}

RECURSIVE SeqsUpTo(_, _)
SeqsUpTo(S, n) ==
    IF n = 0 THEN {<<>>}
    ELSE LET shorter == SeqsUpTo(S, n - 1)
         IN shorter \cup {Append(q, x) : q \in shorter, x \in S}

NoCall == [op |-> "none"]

Init ==
    /\ variant \in Variants
    /\ sampling_dates \in DateLists
    /\ infile \in SeqsUpTo(PipeLines, MaxLines)
    /\ pc = "filter"
    /\ data = <<>>
    /\ btemps = <<>>
    /\ averages = <<>>
    /\ summary = <<>>
    /\ nodata = <<>>
    /\ error = ""
    /\ fn_line = Line(Timestamp(2016, 10, 14, 12, 0), 4, Flat(9))
    /\ call = NoCall
    /\ out = Ret(None)

Next == FilterLoop \/ WriteBTemps \/ WriteAverages \/ WriteSummary

Spec == Init /\ [][Next]_vars

-----------------------------------------------------------------------------
(* Single calls of get_depth, average and in_range on one data line *)

MaxMissing == 1
Under == 2
Over == 3

\* cells read as a missing value: float() raises ValueError on both
MissingCells == {<<>>, <<"N", "A">>}

Decimals == << <<"9", ".", "5">>, <<"1", "0", ".", "2", "5">>, NumCell(11),
               <<"8", ".">>, <<"7", ".", "7", "5">>, NumCell(7), NumCell(12),
               <<"6", ".", "5">>, NumCell(6) >>

\* temperatures near freezing, where binary64 rounding shows
NearFreezing == << <<"0", ".", "1">>, <<"0", ".", "3">>, <<"0", ".", "1">>,
                   <<"0", ".", "6">>, <<"0", ".", "2">>, <<"0", ".", "9">>,
                   <<"1", ".", "4">>, <<"0", ".", "9">>, NumCell(4) >>

FnReadings ==
    {Blank(p, M, c) : p \in {Example, Decimals, NearFreezing},
                      M \in {X \in SUBSET (1..Len(depths)) :
                                Cardinality(X) <= MaxMissing},
                      c \in MissingCells}

FnTimestamps ==
    {Timestamp(y, md[1], md[2], h, 0) :
        y \in {2015, 2016},
        md \in {<<9, 29>>, <<9, 30>>, <<10, 1>>, <<10, 13>>, <<10, 14>>,
                <<10, 15>>, <<10, 16>>},
        h \in {0, 16, 17}}

FnDates == {Oct15, Oct15of2015, DateTime(2016, 10, 1, 16, 0),
            DateTime(2016, 10, 14, 0, 0)}

FnLines ==
    {Line(Timestamp(2016, 10, 14, 12, 0), 4, r) : r \in FnReadings}
        \cup {Line(ts, 4, Flat(9)) : ts \in FnTimestamps}

MinDepth == depths[1]
MaxDepth == depths[Len(depths)]

DepthArgs == (MinDepth - Under)..(MaxDepth + Over)

\* the sensor depths and the depths next to them
Binary64DepthArgs ==
    {d \in DepthArgs : \E k \in 1..Len(depths) : Abs(d - depths[k]) <= 1}

Ends == {MinDepth - 1, 0, 1, 3, 5, 8, 10, 20, MaxDepth, MaxDepth + Over}

IntervalArgs ==
    {intervals[k] : k \in 1..Len(intervals)}
        \cup {i \in Ends \X Ends : i[1] <= i[2]}

InitFn ==
    /\ variant \in Variants
    /\ fn_line \in FnLines
    /\ call = NoCall
    /\ out = Ret(None)
    /\ pc = "call"
    /\ sampling_dates = <<>>
    /\ infile = <<>>
    /\ data = <<>>
    /\ btemps = <<>>
    /\ averages = <<>>
    /\ summary = <<>>
    /\ nodata = <<>>
    /\ error = ""

CallGetDepth ==
    /\ pc = "call" /\ call = NoCall
    /\ \E d \in DepthArgs :
          /\ call' = [op |-> "get_depth", depth |-> d]
          /\ out' = get_depth(variant, filter(fn_line), d)
    /\ UNCHANGED <<variant, sampling_dates, infile, pc, data, btemps,
                   averages, summary, nodata, error, fn_line>>

\* the same call with the float arithmetic carried out in binary64
CallGetDepthBinary64 ==
    /\ pc = "call" /\ call = NoCall
    /\ \E d \in Binary64DepthArgs :
          /\ call' = [op |-> "get_depth_binary64", depth |-> d]
          /\ out' = get_depth_binary64(variant, filter(fn_line), d)
    /\ UNCHANGED <<variant, sampling_dates, infile, pc, data, btemps,
                   averages, summary, nodata, error, fn_line>>

CallAverage ==
    /\ pc = "call" /\ call = NoCall
    /\ \E i \in IntervalArgs :
          /\ call' = [op |-> "average", interval |-> i]
          /\ out' = average(variant, filter(fn_line), i)
    /\ UNCHANGED <<variant, sampling_dates, infile, pc, data, btemps,
                   averages, summary, nodata, error, fn_line>>

CallInRange ==
    /\ pc = "call" /\ call = NoCall
    /\ \E date \in FnDates :
          /\ call' = [op |-> "in_range", date |-> date]
          /\ out' = Ret(IF variant = "MAT"
                        THEN in_range_MAT(filter(fn_line), date)
                        ELSE in_range(fn_line, date))
    /\ UNCHANGED <<variant, sampling_dates, infile, pc, data, btemps,
                   averages, summary, nodata, error, fn_line>>

NextFn ==
    CallGetDepth \/ CallGetDepthBinary64 \/ CallAverage \/ CallInRange

SpecFn == InitFn /\ [][NextFn]_vars

-----------------------------------------------------------------------------
(* Properties of single calls (specification SpecFn) *)

Present(line, k) == PyFloat(line.TS[k]).tag = "return"
AllPresent(line) == \A k \in 1..Len(depths) : Present(line, k)
Temp(line, k) == PyFloat(line.TS[k]).val

InSensorRange(d) == MinDepth < d /\ d <= MaxDepth

\* the position i (counted from 1) with depths[i-1] < d <= depths[i]
Segment(d) ==
    CHOOSE i \in 2..Len(depths) : depths[i - 1] < d /\ d <= depths[i]

\* lo + (d - d0) * (hi - lo) / (d1 - d0)
Line2(lo, hi, d, d0, d1) ==
    FAdd(lo, FDiv(FMul(FInt(d - d0), FSub(hi, lo)), FInt(d1 - d0)))

Interpolated(line, d, i) ==
    Line2(Temp(line, i - 1), Temp(line, i), d, depths[i - 1], depths[i])

\* C1: with every sensor temperature present and min(depths) < d <=
\* max(depths), get_depth returns the linear interpolation on the segment
\* depths[i-1] < d <= depths[i]; on depths [0,5,10,..] with temperatures
\* [10,12,16,..] depth 3 gives 11.2 and depth 8 gives 14.4.
C1_Interpolation ==
    (call.op = "get_depth" /\ AllPresent(fn_line)
        /\ InSensorRange(call.depth))
    => /\ out = Ret(Interpolated(fn_line, call.depth, Segment(call.depth)))
       /\ (fn_line.TS = Example /\ call.depth = 3) => out = Ret(Float(112, 10))
       /\ (fn_line.TS = Example /\ call.depth = 8) => out = Ret(Float(144, 10))

C1_Witness ==
    /\ call.op = "get_depth" /\ call.depth = 8 /\ fn_line.TS = Example
    /\ out = Ret(Float(144, 10))

\* the value the interval average is to take at depth d: the shallowest
\* sensor's temperature at min(depths), the interpolation below it
SampleAt(line, d) ==
    IF d = MinDepth THEN Temp(line, 1) ELSE Interpolated(line, d, Segment(d))

MeanOfSamples(line, a, b) ==
    FDiv(SumRange([d \in a..b |-> Ret(SampleAt(line, d))], a, b),
         FInt(b - a + 1))

\* C2: with every sensor temperature present and min(depths) <= a <= b <=
\* max(depths), a = 0 included, average returns the arithmetic mean of the
\* b - a + 1 unit-depth samples.
C2_MeanOfSamples ==
    (call.op = "average" /\ AllPresent(fn_line)
        /\ MinDepth <= call.interval[1] /\ call.interval[1] <= call.interval[2]
        /\ call.interval[2] <= MaxDepth)
    => out = Ret(MeanOfSamples(fn_line, call.interval[1], call.interval[2]))

\* depth d needs a sensor temperature that is missing
NeedsMissing(line, d) ==
    InSensorRange(d)
        /\ (~Present(line, Segment(d) - 1) \/ ~Present(line, Segment(d)))

\* C3: in the calendar-year script, if some integer depth of [a, b] needs a
\* missing sensor temperature, average returns None.
C3_MissingGivesNone ==
    (variant = "MAT" /\ call.op = "average"
        /\ \E d \in call.interval[1]..call.interval[2] :
              NeedsMissing(fn_line, d))
    => out = Ret(None)

C3_Witness ==
    /\ variant = "MAT" /\ call.op = "average" /\ call.interval = <<10, 20>>
    /\ ~Present(fn_line, 2) /\ Present(fn_line, 3) /\ Present(fn_line, 4)
    /\ out = Ret(None)

\* a sample of [a, b] fails: it is out of range or needs a missing value
SampleFails(line, d) == d > MaxDepth \/ NeedsMissing(line, d)

\* C4: in both scripts a failing sample (a missing sensor value or a depth
\* beyond the deepest sensor) inside the average of an interval that starts
\* deeper than the shallowest sensor is turned into an absent average by
\* average(); it is never an exception that leaves average() and ends the
\* run.
C4_FailureIsAbsent ==
    (call.op = "average" /\ call.interval[1] > MinDepth
        /\ \E d \in call.interval[1]..call.interval[2] :
              SampleFails(fn_line, d))
    => out = Ret(None)

\* the record's timestamp as a full instant, '%Y/%m/%d %H:%M'
Instant(ts) ==
    Minutes(DateTime(PyInt(SubSeq(ts, 1, 4)).val, PyInt(SubSeq(ts, 6, 7)).val,
                     PyInt(SubSeq(ts, 9, 10)).val,
                     PyInt(SubSeq(ts, 12, 13)).val,
                     PyInt(SubSeq(ts, 15, 16)).val))

InWindow(t, date) == MinusBefore(date) <= t /\ t <= Minutes(date)

\* C7: in the lookback-window script in_range is true exactly when the
\* record's timestamp, as a full instant, lies in [date - before, date].
C7_FullInstantWindow ==
    (variant = "window" /\ call.op = "in_range")
    => (out.val <=> InWindow(Instant(fn_line.TIMESTAMP), call.date))

\* C10: for every depth greater than the deepest sensor depth get_depth
\* raises ValueError, whatever the reading.
C10_OutOfRange ==
    (call.op = "get_depth" /\ call.depth > MaxDepth)
    => out = Raise("ValueError")

C10_Witness ==
    /\ call.op = "get_depth" /\ call.depth = MaxDepth + 1
    /\ AllPresent(fn_line) /\ out = Raise("ValueError")

-----------------------------------------------------------------------------
(* Properties of a run (specification Spec) *)

IntervalIndex(i) == CHOOSE j \in 1..Len(intervals) : intervals[j] = i

\* the interval average written to the per-record table for data[k]
AvgWritten(k, i) ==
    averages[(k - 1) * Len(intervals) + IntervalIndex(i)].average.val

\* the interval averages of the samples of a group, and those that are numbers
GroupAverages(e) ==
    [q \in 1..Len(e.samples) |-> AvgWritten(e.samples[q], e.interval)]
GroupValues(e) == SelectSeq(GroupAverages(e), IsNumber)

NumericRow(r) ==
    /\ r.min.kind = "float" /\ r.max.kind = "float" /\ r.avg.kind = "float"
    /\ r.stdev.kind \in {"float", "sqrt"}

\* C5: a group gets a numeric row exactly when it has at least one
\* non-absent interval average; a group with no matching reading, or whose
\* matching readings all have an absent average, is a "no data for" report
\* and never a row of zero or NaN statistics.
C5_RowIffValue ==
    pc = "done"
    => /\ \A k \in 1..Len(summary) :
             GroupValues(summary[k]) # <<>> /\ NumericRow(summary[k])
       /\ \A k \in 1..Len(nodata) : GroupValues(nodata[k]) = <<>>

\* the square of a standard deviation
Squared(sd) == IF sd.kind = "sqrt" THEN sd.of ELSE FSquare(sd)

StatsOver(r, V) ==
    /\ \E q \in 1..Len(V) : V[q] = r.min
    /\ \A q \in 1..Len(V) : FLeq(r.min, V[q])
    /\ \E q \in 1..Len(V) : V[q] = r.max
    /\ \A q \in 1..Len(V) : FLeq(V[q], r.max)
    /\ FMul(r.avg, FInt(Len(V))) = FSum(V)
    /\ FMul(Squared(r.stdev), FInt(Len(V))) = FSum(SqDev(V, r.avg))
    /\ r.stdev.kind = "float" => FLeq(FInt(0), r.stdev)
    /\ Len(V) = 1 => r.stdev = FInt(0)
    /\ V \in {<<FInt(9), FInt(11)>>, <<FInt(11), FInt(9)>>}
          => /\ r.min = FInt(9) /\ r.max = FInt(11)
             /\ r.avg = FInt(10) /\ r.stdev = FInt(1)

\* C6: the min, max, mean and standard deviation of a summary row are
\* those of the non-absent interval averages of its group, absent ones left
\* out, with the population standard deviation (9.0 and 11.0 give 9.0,
\* 11.0, 10.0 and 1.0; one value gives 0).
C6_StatsOverValues ==
    pc = "done"
    => \A k \in 1..Len(summary) :
          GroupValues(summary[k]) # <<>>
              => StatsOver(summary[k], GroupValues(summary[k]))

C6_Witness ==
    /\ pc = "done"
    /\ \E k \in 1..Len(summary) :
          /\ GroupValues(summary[k]) = <<FInt(9), FInt(11)>>
          /\ summary[k].stdev = FInt(1)
    /\ \E k \in 1..Len(summary) :
          /\ Len(GroupAverages(summary[k])) = 2
          /\ GroupValues(summary[k]) = <<FInt(9)>>
          /\ summary[k].avg = FInt(9)

\* the sampling dates in whose groups data[k] is counted
Counted(entries, k) ==
    {entries[g].date : g \in {h \in 1..Len(entries) :
                                \E q \in 1..Len(entries[h].samples) :
                                    entries[h].samples[q] = k}}

\* C8: every retained record is counted in the summary groups of exactly
\* one sampling date.
C8_OneDatePerRecord ==
    pc = "done"
    => \A k \in 1..Len(data) :
          Cardinality(Counted(summary, k) \cup Counted(nodata, k)) = 1

\* the temporal predicate of the filter loop
Temporal(v, line, date) ==
    IF v = "MAT" THEN is_year(PyInt(SubSeq(line.c0, 1, 4)).val, date)
                 ELSE in_range(line, date)

Passes(v, line, dates) ==
    /\ \E di \in 1..Len(dates) : Temporal(v, line, dates[di])
    /\ InPlots(PyInt(line.Plot).val)

Retained(v, lines, dates) ==
    SelectSeq(lines, LAMBDA line : Passes(v, line, dates))

\* C9: each input record that passes the filter is in the filtered list
\* exactly once, also when it matches several sampling dates, and a record
\* that fails the date or the plot test is not in it.
C9_OncePerRecord ==
    pc # "filter"
    => data = [k \in 1..Len(Retained(variant, infile, sampling_dates)) |->
                  filter(Retained(variant, infile, sampling_dates)[k])]

-----------------------------------------------------------------------------
(* Interpolation between and at the sensor depths (specification SpecFn) *)

GetDepthCalls == {"get_depth", "get_depth_binary64"}

StrictlyBetween(d) ==
    \E i \in 2..Len(depths) : depths[i - 1] < d /\ d < depths[i]

Temp64(line, k) == PyFloat64(line.TS[k]).val

\* x <= y in binary64: the rounded difference has the sign of the exact one
Leq64(x, y) == Sub64(y, x).man = <<>> \/ ~Sub64(y, x).neg

WithinReal(v, lo, hi) ==
    \/ FLeq(lo, v) /\ FLeq(v, hi)
    \/ FLeq(hi, v) /\ FLeq(v, lo)

Within64(v, lo, hi) ==
    \/ Leq64(lo, v) /\ Leq64(v, hi)
    \/ Leq64(hi, v) /\ Leq64(v, lo)

WithinNeighbours(op, line, v, i) ==
    IF op = "get_depth"
    THEN WithinReal(v, Temp(line, i - 1), Temp(line, i))
    ELSE Within64(v, Temp64(line, i - 1), Temp64(line, i))

\* C11: for a depth d strictly between two adjacent sensor depths and a
\* reading whose two neighbouring sensors are present, get_depth returns a
\* value with min(lo, hi) <= value <= max(lo, hi), lo and hi the
\* temperatures of the two neighbouring sensors; this holds of the exact
\* value and of the value rounded in binary64.
C11_WithinNeighbours ==
    (/\ pc = "call" /\ call.op \in GetDepthCalls
     /\ StrictlyBetween(call.depth)
     /\ Present(fn_line, Segment(call.depth) - 1)
     /\ Present(fn_line, Segment(call.depth)))
    => /\ out.tag = "return"
       /\ WithinNeighbours(call.op, fn_line, out.val, Segment(call.depth))

\* a depth on a falling segment (0.3 at depth 5, 0.1 at depth 10) whose
\* binary64 value lies strictly inside the two temperatures
C11_Witness ==
    /\ call.op = "get_depth_binary64" /\ call.depth = 9
    /\ fn_line.TS = NearFreezing
    /\ out.tag = "return"
    /\ out.val # Temp64(fn_line, 2) /\ out.val # Temp64(fn_line, 3)
    /\ Leq64(Temp64(fn_line, 3), out.val)
    /\ Leq64(out.val, Temp64(fn_line, 2))

-----------------------------------------------------------------------------
(* The depth intervals of the averages file (specification Spec) *)

AveragesWritten == pc \in {"summary", "done"} /\ averages # <<>>

\* the unit depths whose samples make up the average of a row: the loop
\* of average runs over range(interval[0], interval[1] + 1)
Sampled(row) == row.upper..row.lower

\* the rows of the k-th retained record, one per interval, in file order
RowOf(k, j) == averages[(k - 1) * Len(intervals) + j]

\* eleven intervals per record, in increasing order, from depth 1 to
\* depth 200, leaving out no depth in between
SpansProfile(k) ==
    /\ Len(intervals) = 11
    /\ Len(averages) = Len(data) * Len(intervals)
    /\ RowOf(k, 1).upper = 1
    /\ RowOf(k, Len(intervals)).lower = 200
    /\ \A j \in 1..Len(intervals) : RowOf(k, j).upper < RowOf(k, j).lower
    /\ \A j \in 1..(Len(intervals) - 1) :
          /\ RowOf(k, j).upper < RowOf(k, j + 1).upper
          /\ RowOf(k, j).lower < RowOf(k, j + 1).lower
    /\ UNION {Sampled(RowOf(k, j)) : j \in 1..Len(intervals)} = 1..200

\* C12 as stated: the eleven intervals span depths 1 to 200 in order
\* without a gap, and no depth belongs to two of them, so that no
\* unit-depth sample is counted in the averages of two rows of a record.
C12_NoSharedDepth ==
    AveragesWritten
    => \A k \in 1..Len(data) :
          /\ SpansProfile(k)
          /\ \A j, m \in 1..Len(intervals) :
                j # m => Sampled(RowOf(k, j)) \cap Sampled(RowOf(k, m)) = {}

\* C12: the eleven intervals span depths 1 to 200 in order without a gap;
\* each begins at the depth where the previous one ends, so two adjacent
\* intervals share exactly that one depth, whose sample is counted in the
\* averages of both, and two intervals that are not adjacent share none.
C12_SharedBoundaries ==
    AveragesWritten
    => \A k \in 1..Len(data) :
          /\ SpansProfile(k)
          /\ \A j \in 1..(Len(intervals) - 1) :
                Sampled(RowOf(k, j)) \cap Sampled(RowOf(k, j + 1))
                    = {RowOf(k, j).lower}
          /\ \A j, m \in 1..Len(intervals) :
                j + 1 < m
                => Sampled(RowOf(k, j)) \cap Sampled(RowOf(k, m)) = {}

\* a record whose averages over (1, 10) and (10, 20) are both numbers: the
\* sample at depth 10 went into both
C12_Witness ==
    /\ AveragesWritten
    /\ RowOf(1, 1).lower = 10 /\ RowOf(1, 2).upper = 10
    /\ RowOf(1, 1).average.val.kind = "float"
    /\ RowOf(1, 2).average.val.kind = "float"

-----------------------------------------------------------------------------
(* get_depth at a sensor depth (specification SpecFn) *)

\* d is a sensor depth other than the shallowest
AtSensor(d) == \E i \in 2..Len(depths) : depths[i] = d

Abs64(x) == Binary64(FALSE, x.man, x.exp)
Max64(x, y) == IF Leq64(x, y) THEN y ELSE x

\* x * 2^k
Scale64(x, k) == IF x.man = <<>> THEN x ELSE Binary64(x.neg, x.man, x.exp + k)

\* |v - hi| <= 2^-50 * max(|lo|, |hi|)
CloseTo64(v, hi, lo) ==
    Leq64(Abs64(Sub64(v, hi)), Scale64(Max64(Abs64(lo), Abs64(hi)), -50))

\* the sensor's own temperature, as the call's arithmetic represents it
SensorValue(op, line, i) ==
    IF op = "get_depth" THEN Temp(line, i) ELSE Temp64(line, i)

\* the same, up to the rounding of the binary64 operations
NearSensorValue(op, line, v, i) ==
    IF op = "get_depth" THEN v = Temp(line, i)
    ELSE v.kind = "binary64"
            /\ CloseTo64(v, Temp64(line, i), Temp64(line, i - 1))

\* get_depth at the sensor depth depths[i] fails exactly when the cell of
\* that sensor or of the next shallower one is missing, whatever the cell
\* of the next deeper sensor holds
FailsOnSegment(line, i) ==
    out.tag = "raise" <=> ~(Present(line, i - 1) /\ Present(line, i))

\* average over (10, 20) in the calendar-year script, with the cell of the
\* sensor at depth 5 missing
AverageBelowMissing ==
    /\ variant = "MAT" /\ call.op = "average" /\ call.interval = <<10, 20>>
    /\ ~Present(fn_line, 2)

\* C13 as stated: at a sensor depth d other than the shallowest, get_depth
\* returns exactly the temperature of the sensor at d when that sensor and
\* the next shallower one are present, fails when either is missing, and
\* does not depend on the next deeper sensor; average over (10, 20) is None
\* when the sensor at depth 5 is missing.
C13_ExactAtSensor ==
    /\ (pc = "call" /\ call.op \in GetDepthCalls /\ AtSensor(call.depth))
       => /\ FailsOnSegment(fn_line, Segment(call.depth))
          /\ out.tag = "return"
             => out.val = SensorValue(call.op, fn_line, Segment(call.depth))
    /\ AverageBelowMissing => out = Ret(None)

\* C13: at a sensor depth d other than the shallowest, get_depth
\* interpolates on the segment ending at d.  With the sensor at d and the
\* next shallower one present it returns the temperature of the sensor at d
\* in exact arithmetic, and in binary64 a value within 2^-50 times the
\* larger magnitude of the two temperatures of it; it fails when either is
\* missing and does not depend on the next deeper sensor; average over
\* (10, 20) is None when the sensor at depth 5 is missing.
C13_SegmentEndingAtDepth ==
    /\ (pc = "call" /\ call.op \in GetDepthCalls /\ AtSensor(call.depth))
       => /\ FailsOnSegment(fn_line, Segment(call.depth))
          /\ out.tag = "return"
             => NearSensorValue(call.op, fn_line, out.val,
                                Segment(call.depth))
    /\ AverageBelowMissing => out = Ret(None)

\* the sensor at depth 10 is present, the one at depth 5 is not, and
\* get_depth at depth 10 fails
C13_Witness ==
    /\ call.op = "get_depth" /\ call.depth = 10
    /\ ~Present(fn_line, 2) /\ Present(fn_line, 3) /\ Present(fn_line, 4)
    /\ out = Raise("ValueError")

-----------------------------------------------------------------------------
(* get_depth above the shallowest sensor (specification SpecFn) *)

\* C14: for every depth d < min(depths), get_depth of either script fails
\* with an error; it returns no value, hence none computed from the plot
\* identifier fields[1].
C14_NegativeDepthFails ==
    (pc = "call" /\ call.op \in GetDepthCalls /\ call.depth < MinDepth)
    => out.tag = "raise"

====
